---- MODULE Spec2Model ----
(***************************************************************************)
(* Client-side session / auth-state manager of the admin panel:           *)
(* AuthContext (reducer, initializer, login, logout, setUser),            *)
(* useAuthManager (scheduled refresh, session validation, cross-tab       *)
(* listeners), the axios interceptors of services/api and ProtectedRoute. *)
(* Two browser tabs of the same origin share localStorage; each has its   *)
(* own sessionStorage, Session and set of requests in flight.             *)
(***************************************************************************)
EXTENDS Integers, FiniteSets, Sequences, TLC

\* ---------------------------------------------------------------- bounds
NumTokens == 2
NumUsers == 2
\* Requests in flight and storage events pending, over all tabs.
MaxInFlight == 2
MaxEvents == 3

\* ------------------------------------------------------------ value sets
Tabs == {"A", "B"}
Null == 0
Tokens == 1..NumTokens
Users == 1..NumUsers

NullErr == "<null>"
LoginFailed == "Login failed"
NetworkError == "Network error. Please check your connection."

\* JavaScript truthiness of a parsed token / user (null is falsy).
Truthy(v) == v # Null

\* ------------------------------------------------- stored strings (raw)
\* What Storage.getItem returns: null (absent), the empty string, a string
\* that is valid JSON for a value, or a string that JSON.parse rejects.
Absent == [tag |-> "absent", val |-> 0]
EmptyStr == [tag |-> "empty", val |-> 0]
Malformed == [tag |-> "malformed", val |-> 0]
JSONstringify(v) == [tag |-> "json", val |-> v]
JSONparseThrows(raw) == raw.tag # "json"
JSONparse(raw) == raw.val
RawTruthy(raw) == raw.tag \notin {"absent", "empty"}

RawTokens == {Absent, EmptyStr, Malformed} \cup {JSONstringify(v) : v \in Tokens \cup {Null}}
RawUsers == {Absent, EmptyStr, Malformed} \cup {JSONstringify(v) : v \in Users \cup {Null}}
RawRemember == {"absent", "true", "other"}

\* ------------------------------------------------------------- reducer
initialState ==
  [user |-> Null, token |-> Null, isAuthenticated |-> FALSE, loading |-> TRUE, error |-> NullErr]

Act(type, user, token, msg, flag) ==
  [type |-> type, user |-> user, token |-> token, msg |-> msg, flag |-> flag]
LOGIN_START == Act("LOGIN_START", Null, Null, NullErr, FALSE)
LOGIN_SUCCESS(user, token) == Act("LOGIN_SUCCESS", user, token, NullErr, FALSE)
LOGIN_FAILURE(msg) == Act("LOGIN_FAILURE", Null, Null, msg, FALSE)
LOGOUT == Act("LOGOUT", Null, Null, NullErr, FALSE)
SET_USER(user) == Act("SET_USER", user, Null, NullErr, FALSE)
SET_LOADING(flag) == Act("SET_LOADING", Null, Null, NullErr, flag)

ReduceSetUser(state, action) ==
  [state EXCEPT !.user = action.user, !.isAuthenticated = TRUE, !.loading = FALSE]

ReduceLogoutFlagging(state, action) ==
  [state EXCEPT !.user = Null, !.token = Null, !.isAuthenticated = FALSE,
                !.loading = FALSE, !.error = IF state.isAuthenticated THEN NullErr ELSE ""]

ReduceLogout(state, action) ==
  [state EXCEPT !.user = Null, !.token = Null, !.isAuthenticated = FALSE,
                !.loading = FALSE, !.error = NullErr]

ReduceLoginSuccessKeepError(state, action) ==
  [state EXCEPT !.user = action.user, !.token = action.token,
                !.isAuthenticated = TRUE, !.loading = FALSE]

ReduceLoginSuccess(state, action) ==
  [state EXCEPT !.user = action.user, !.token = action.token,
                !.isAuthenticated = TRUE, !.loading = FALSE, !.error = NullErr]

authReducer(state, action) ==
  CASE action.type = "LOGIN_START" ->
         [state EXCEPT !.loading = TRUE, !.error = NullErr]
    [] action.type = "LOGIN_SUCCESS" -> ReduceLoginSuccess(state, action)
    [] action.type = "LOGIN_FAILURE" ->
         [state EXCEPT !.user = Null, !.token = Null, !.isAuthenticated = FALSE,
                       !.loading = FALSE, !.error = action.msg]
    [] action.type = "LOGOUT" -> ReduceLogout(state, action)
    [] action.type = "SET_USER" -> ReduceSetUser(state, action)
    [] action.type = "SET_LOADING" ->
         [state EXCEPT !.loading = action.flag]
    [] OTHER -> state

\* ------------------------------------------------------------ rendering
\* ProtectedRoute: which subtree is rendered for a Session.
ProtectedRouteInverted(s) ==
  IF s.loading THEN "loader"
  ELSE IF s.isAuthenticated /\ Truthy(s.token) /\ Truthy(s.user) THEN "login"
  ELSE "protected"

ProtectedRoute(s) ==
  IF s.loading THEN "loader"
  ELSE IF ~s.isAuthenticated \/ ~Truthy(s.token) \/ ~Truthy(s.user) THEN "login"
  ELSE "protected"

\* ---------------------------------------------------------------- state
VARIABLES
  session,        \* per tab: the AuthProvider's reducer state
  localStorage,   \* shared by the tabs of the origin
  sessionStorage, \* per tab
  pc,             \* per tab: "closed", "start" before the mount effect ran, then "ready"
  route,          \* per tab: the page the router points at
  inflight,       \* per tab: requests sent and not yet settled
  events,         \* per tab: storage events queued for the tab
  timer,          \* per tab: the refresh interval of useAuthManager
  last            \* the handler that ran last, with its input and what it called

vars == <<session, localStorage, sessionStorage, pc, route, inflight, events, timer, last>>

\* A handler run: op with the response status or the storage event it was
\* given.
Ran(op, status, key, isNull) == [op |-> op, status |-> status, key |-> key, isNull |-> isNull]
NoRun == [op |-> "none", tab |-> "A", status |-> "-", key |-> "-", isNull |-> FALSE,
          heard |-> FALSE, loggedOut |-> FALSE, wasAuth |-> FALSE]

Routes == {"dashboard", "profile"}
EmptyLocal == [admin_token |-> Absent, admin_user |-> Absent, admin_remember_me |-> "absent"]
EmptySession == [admin_token |-> Absent, admin_user |-> Absent]

Req(kind, arg) == [kind |-> kind, arg |-> arg]
LoginReqs == {Req("login", rememberMe) : rememberMe \in {0, 1}}
MeReqs == {Req("me", u) : u \in Users \cup {Null}}
RefreshReqs == {Req("refresh", 0)}
ManualReqs == {Req("manual", 0)}
LogoutReqs == {Req("logout", 0)}
StorageKeys == {"admin_token", "admin_user", "admin_remember_me"}
StorageEventSet == [key : StorageKeys, isNull : BOOLEAN]

\* Dashboard is the only page that calls useAuthManager; it is rendered
\* inside ProtectedRoute under the route "/".
DashboardMountedIn(s, r) == ProtectedRoute(s) = "protected" /\ r = "dashboard"
DashboardMounted(t) == pc[t] = "ready" /\ DashboardMountedIn(session[t], route[t])

\* ------------------------------------------------- one tab's view (world)
\* The pieces of state a handler running in tab t reads and writes.
\* dispatched records that the handler dispatched to the reducer, which
\* re-renders AuthProvider and its consumers; thrown that it ended by
\* throwing to its caller.
World(t) ==
  [ls |-> localStorage, ss |-> sessionStorage[t], s |-> session[t],
   fl |-> inflight[t], dispatched |-> FALSE, loggedOut |-> FALSE, thrown |-> FALSE]

dispatch(w, action) ==
  [w EXCEPT !.s = authReducer(w.s, action), !.dispatched = TRUE]

send(w, req) == [w EXCEPT !.fl = w.fl \cup {req}]

RemoveAuthKeys(w) ==
  [w EXCEPT !.ls.admin_token = Absent, !.ls.admin_user = Absent,
            !.ss.admin_token = Absent, !.ss.admin_user = Absent]

\* AuthContext.logout
logoutAfterBackend(w) ==
  [send(w, Req("logout", 0)) EXCEPT !.loggedOut = TRUE]

logout(w) ==
  [send(dispatch(RemoveAuthKeys(w), LOGOUT), Req("logout", 0)) EXCEPT !.loggedOut = TRUE]

\* utils.setToStorage
setToStorage(w, user) == [w EXCEPT !.ls.admin_user = JSONstringify(user)]

\* AuthContext.setUser
setUser(w, user) == dispatch(setToStorage(w, user), SET_USER(user))

\* AuthContext.clearError
clearError(w) == dispatch(w, LOGIN_FAILURE(""))

\* Response interceptor of the api client on a 401: clears both storages and
\* dispatches the window event auth:logout, which runs handleLogoutEvent
\* synchronously when useAuthManager is mounted in this tab.
Interceptor401NoEvent(w, listening) == RemoveAuthKeys(w)

Interceptor401(w, listening) ==
  IF listening THEN logout(RemoveAuthKeys(w)) ELSE RemoveAuthKeys(w)

\* Storage events other tabs receive for the change old -> new of localStorage.
StorageEvents(old, new) ==
  {[key |-> k, isNull |-> IF k = "admin_remember_me" THEN new[k] = "absent" ELSE new[k] = Absent] :
     k \in {x \in DOMAIN old : old[x] # new[x]}}

\* The effect of useAuthManager (lines 62-74) re-runs after a render in which
\* its dependencies changed; it calls validateSession when authenticated.
validateSession(w) ==
  IF ~Truthy(w.s.token) THEN w ELSE send(w, Req("me", w.s.user))

AfterRender(t, w, r) ==
  IF DashboardMountedIn(w.s, r) /\ (w.dispatched \/ ~DashboardMounted(t))
  THEN validateSession(w) ELSE w

\* The refresh interval after a handler ran in tab t. The effect's cleanup
\* clears it when Dashboard unmounts or the Session stops being
\* authenticated; the effect sets a new one ("armed") when Dashboard mounts
\* and whenever AuthProvider re-rendered, since logout and setUser, hence
\* validateSession and handleTokenExpiration, are new functions after every
\* render. "running" is an interval that was set some time ago.
IntervalAfterUncleared(t, w, r) ==
  IF DashboardMountedIn(w.s, r) /\ (w.dispatched \/ ~DashboardMounted(t)) THEN "armed"
  ELSE timer[t]

IntervalAfter(t, w, r) ==
  IF ~DashboardMountedIn(w.s, r) THEN "idle"
  ELSE IF w.dispatched \/ ~DashboardMounted(t) THEN "armed"
  ELSE timer[t]

\* Writes the handler's outcome back and queues the storage events.
Total(f) == Cardinality(f["A"]) + Cardinality(f["B"])

CommitEv(t, w0, r, own, ran) ==
  LET w == AfterRender(t, w0, r) IN
  /\ localStorage' = w.ls
  /\ sessionStorage' = [sessionStorage EXCEPT ![t] = w.ss]
  /\ session' = [session EXCEPT ![t] = w.s]
  /\ inflight' = [inflight EXCEPT ![t] = w.fl]
  /\ route' = [route EXCEPT ![t] = r]
  /\ timer' = [timer EXCEPT ![t] = IntervalAfter(t, w0, r)]
  /\ events' = [u \in Tabs |->
                  IF u = t THEN own
                  ELSE IF pc[u] = "closed" THEN events[u]
                  ELSE events[u] \cup StorageEvents(localStorage, w.ls)]
  /\ last' = [op |-> ran.op, tab |-> t, status |-> ran.status, key |-> ran.key,
               isNull |-> ran.isNull, heard |-> DashboardMounted(t),
               loggedOut |-> w.loggedOut, wasAuth |-> session[t].isAuthenticated]
  /\ Total(inflight') <= MaxInFlight \/ Total(inflight') <= Total(inflight)
  /\ Total(events') <= MaxEvents \/ Total(events') <= Total(events)

Commit(t, w0, r, ran) == CommitEv(t, w0, r, events[t], ran)

\* ------------------------------------------------------------- initializer
\* AuthProvider's mount effect.
initializeAuthSessionOnly(w) ==
  LET tokenRaw == w.ss.admin_token
      userRaw == w.ss.admin_user
      throws == (RawTruthy(tokenRaw) /\ JSONparseThrows(tokenRaw))
                \/ (RawTruthy(userRaw) /\ JSONparseThrows(userRaw))
      token == IF RawTruthy(tokenRaw) THEN JSONparse(tokenRaw) ELSE Null
      user == IF RawTruthy(userRaw) THEN JSONparse(userRaw) ELSE Null
  IN IF throws THEN dispatch(w, SET_LOADING(FALSE))
     ELSE IF Truthy(token) /\ Truthy(user) THEN dispatch(w, LOGIN_SUCCESS(user, token))
     ELSE dispatch(w, SET_LOADING(FALSE))

initializeAuthUncaught(w) ==
  LET remember == w.ls.admin_remember_me = "true"
      tokenRaw == IF remember THEN w.ls.admin_token ELSE w.ss.admin_token
      userRaw == IF remember THEN w.ls.admin_user ELSE w.ss.admin_user
      throws == (RawTruthy(tokenRaw) /\ JSONparseThrows(tokenRaw))
                \/ (RawTruthy(userRaw) /\ JSONparseThrows(userRaw))
      token == IF RawTruthy(tokenRaw) THEN JSONparse(tokenRaw) ELSE Null
      user == IF RawTruthy(userRaw) THEN JSONparse(userRaw) ELSE Null
  IN IF throws THEN w
     ELSE IF Truthy(token) /\ Truthy(user) THEN dispatch(w, LOGIN_SUCCESS(user, token))
     ELSE dispatch(w, SET_LOADING(FALSE))

initializeAuthFallback(w) ==
  LET remember == w.ls.admin_remember_me = "true"
      sel == IF remember THEN w.ls ELSE w.ss
      oth == IF remember THEN w.ss ELSE w.ls
      tokenRaw == IF RawTruthy(sel.admin_token) THEN sel.admin_token ELSE oth.admin_token
      userRaw == IF RawTruthy(sel.admin_user) THEN sel.admin_user ELSE oth.admin_user
      throws == (RawTruthy(tokenRaw) /\ JSONparseThrows(tokenRaw))
                \/ (RawTruthy(userRaw) /\ JSONparseThrows(userRaw))
      token == IF RawTruthy(tokenRaw) THEN JSONparse(tokenRaw) ELSE Null
      user == IF RawTruthy(userRaw) THEN JSONparse(userRaw) ELSE Null
  IN IF throws THEN dispatch(w, SET_LOADING(FALSE))
     ELSE IF Truthy(token) /\ Truthy(user) THEN dispatch(w, LOGIN_SUCCESS(user, token))
     ELSE dispatch(w, SET_LOADING(FALSE))

initializeAuthIn(w) ==
  LET remember == w.ls.admin_remember_me = "true"
      tokenRaw == IF remember THEN w.ls.admin_token ELSE w.ss.admin_token
      userRaw == IF remember THEN w.ls.admin_user ELSE w.ss.admin_user
      throws == (RawTruthy(tokenRaw) /\ JSONparseThrows(tokenRaw))
                \/ (RawTruthy(userRaw) /\ JSONparseThrows(userRaw))
      token == IF RawTruthy(tokenRaw) THEN JSONparse(tokenRaw) ELSE Null
      user == IF RawTruthy(userRaw) THEN JSONparse(userRaw) ELSE Null
  IN IF throws THEN dispatch(w, SET_LOADING(FALSE))
     ELSE IF Truthy(token) /\ Truthy(user) THEN dispatch(w, LOGIN_SUCCESS(user, token))
     ELSE dispatch(w, SET_LOADING(FALSE))

initializeAuth(t) ==
  /\ pc[t] = "start"
  /\ pc' = [pc EXCEPT ![t] = "ready"]
  /\ Commit(t, initializeAuthIn(World(t)), route[t], Ran("initializeAuth", "-", "-", FALSE))

\* ---------------------------------------------------------------- backend
\* What a request can settle with: a success body, a 401, or any other
\* failure (network error, other status, body without data).
Response(status, user, token, msg) ==
  [status |-> status, user |-> user, token |-> token, msg |-> msg]
Failures == {Response("401", Null, Null, LoginFailed), Response("error", Null, Null, NetworkError)}
LoginResponses == {Response("ok", u, k, NullErr) : u \in Users, k \in Tokens} \cup Failures
RefreshResponses == {Response("ok", Null, k, NullErr) : k \in Tokens} \cup Failures
MeResponses == {Response("ok", u, Null, NullErr) : u \in Users} \cup Failures
LogoutResponses == {Response("ok", Null, Null, NullErr)} \cup Failures

\* The response interceptor runs before the caller sees the failure.
InterceptListeningAnywhere(t, w, resp) ==
  IF resp.status = "401" THEN Interceptor401(w, TRUE) ELSE w

Intercept(t, w, resp) ==
  IF resp.status = "401" THEN Interceptor401(w, DashboardMounted(t)) ELSE w

settled(w, req) == [w EXCEPT !.fl = w.fl \ {req}]

\* -------------------------------------------------------------------- login
\* useLogin.login -> AuthContext.login, up to the request being sent.
loginStart(t, rememberMe) ==
  /\ pc[t] = "ready"
  /\ ProtectedRoute(session[t]) = "login"
  /\ \A q \in inflight[t] : q.kind # "login"
  /\ Commit(t, send(dispatch(World(t), LOGIN_START), Req("login", rememberMe)), route[t], Ran("loginStart", "-", "-", FALSE))
  /\ UNCHANGED pc

\* AuthContext.login lines 132-157 on the response.
storeLoginKeepOther(w, user, token) ==
  IF w.ls.admin_remember_me = "true"
  THEN [w EXCEPT !.ls.admin_token = JSONstringify(token), !.ls.admin_user = JSONstringify(user)]
  ELSE [w EXCEPT !.ss.admin_token = JSONstringify(token), !.ss.admin_user = JSONstringify(user)]

storeLogin(w, user, token) ==
  IF w.ls.admin_remember_me = "true"
  THEN [w EXCEPT !.ls.admin_token = JSONstringify(token), !.ls.admin_user = JSONstringify(user),
                 !.ss.admin_token = Absent, !.ss.admin_user = Absent]
  ELSE [w EXCEPT !.ss.admin_token = JSONstringify(token), !.ss.admin_user = JSONstringify(user),
                 !.ls.admin_token = Absent, !.ls.admin_user = Absent]

loginOutcomeSilentFailure(w, resp) ==
  IF resp.status = "ok"
  THEN dispatch(storeLogin(w, resp.user, resp.token), LOGIN_SUCCESS(resp.user, resp.token))
  ELSE w

loginOutcomeSwallowed(w, resp) ==
  IF resp.status = "ok"
  THEN dispatch(storeLogin(w, resp.user, resp.token), LOGIN_SUCCESS(resp.user, resp.token))
  ELSE dispatch(w, LOGIN_FAILURE(resp.msg))

loginOutcome(w, resp) ==
  IF resp.status = "ok"
  THEN dispatch(storeLogin(w, resp.user, resp.token), LOGIN_SUCCESS(resp.user, resp.token))
  ELSE [dispatch(w, LOGIN_FAILURE(resp.msg)) EXCEPT !.thrown = TRUE]

\* useLogin.login after auth.login settled: the catch block skips the
\* remember-me write when login threw.
rememberOption(w, resp, rememberMe) ==
  IF ~w.thrown /\ rememberMe = 1
  THEN [w EXCEPT !.ls.admin_remember_me = "true"] ELSE w

loginSettle(t, req, resp) ==
  /\ req \in inflight[t] /\ req.kind = "login"
  /\ resp \in LoginResponses
  /\ Commit(t, rememberOption(loginOutcome(Intercept(t, settled(World(t), req), resp), resp),
                              resp, req.arg), route[t], Ran("loginSettle", resp.status, "-", FALSE))
  /\ UNCHANGED pc

\* ------------------------------------------------------------------- logout
\* The sign-out buttons (header, profile) call AuthContext.logout; useLogout
\* removes the remember-me preference first.
logoutClick(t, viaUseLogout) ==
  /\ pc[t] = "ready"
  /\ ProtectedRoute(session[t]) = "protected"
  /\ LET w0 == World(t)
         w1 == IF viaUseLogout THEN [w0 EXCEPT !.ls.admin_remember_me = "absent"] ELSE w0
     IN Commit(t, logout(w1), route[t], Ran("logoutClick", "-", "-", FALSE))
  /\ UNCHANGED pc

logoutSettle(t, req, resp) ==
  /\ req \in inflight[t] /\ req.kind = "logout"
  /\ resp \in LogoutResponses
  /\ Commit(t, Intercept(t, settled(World(t), req), resp), route[t], Ran("logoutSettle", resp.status, "-", FALSE))
  /\ UNCHANGED pc

\* -------------------------------------------------------- scheduled refresh
\* Time passes in tab t while its interval is set.
timePasses(t) ==
  /\ pc[t] = "ready"
  /\ timer[t] = "armed"
  /\ timer' = [timer EXCEPT ![t] = "running"]
  /\ last' = [NoRun EXCEPT !.op = "timePasses", !.tab = t]
  /\ UNCHANGED <<session, localStorage, sessionStorage, pc, route, inflight, events>>

\* The interval callback of useAuthManager: handleTokenExpiration calls
\* refreshToken, which returns false at once without a token.
refreshTick(t) ==
  /\ pc[t] = "ready"
  /\ timer[t] = "running"
  /\ Req("refresh", 0) \notin inflight[t]
  /\ Commit(t, IF ~Truthy(session[t].token) THEN logout(World(t))
               ELSE send(World(t), Req("refresh", 0)), route[t], Ran("refreshTick", "-", "-", FALSE))
  /\ UNCHANGED pc

\* refreshToken lines 17-27 on the response: true iff the token was stored.
refreshStoredFirstWins(w, resp) ==
  IF w.ls.admin_token = Absent
  THEN [w EXCEPT !.ls.admin_token = JSONstringify(resp.token)] ELSE w

refreshStored(w, resp) == [w EXCEPT !.ls.admin_token = JSONstringify(resp.token)]

handleTokenExpirationKeepSession(w, resp) ==
  IF resp.status = "ok" THEN refreshStored(w, resp) ELSE w

\* handleTokenExpiration on the settled refreshToken.
handleTokenExpiration(w, resp) ==
  IF resp.status = "ok" THEN refreshStored(w, resp) ELSE logout(w)

refreshSettle(t, req, resp) ==
  /\ req \in inflight[t] /\ req.kind = "refresh"
  /\ resp \in RefreshResponses
  /\ Commit(t, handleTokenExpiration(Intercept(t, settled(World(t), req), resp), resp), route[t], Ran("refreshSettle", resp.status, "-", FALSE))
  /\ UNCHANGED pc

\* ------------------------------------------------- manual refresh (Settings)
\* Settings.handleRefreshToken up to the request being sent; the button is
\* disabled while the request is in flight.
handleRefreshToken(t) ==
  /\ pc[t] = "ready"
  /\ ProtectedRoute(session[t]) = "protected"
  /\ route[t] = "settings"
  /\ Req("manual", 0) \notin inflight[t]
  /\ Commit(t, send(World(t), Req("manual", 0)), route[t], Ran("handleRefreshToken", "-", "-", FALSE))
  /\ UNCHANGED pc

\* Settings.handleRefreshToken lines 30-41 on the response.
manualStored(w, resp) ==
  IF resp.status = "ok" /\ Truthy(resp.token)
  THEN [w EXCEPT !.ls.admin_token = JSONstringify(resp.token)] ELSE w

manualSettle(t, req, resp) ==
  /\ req \in inflight[t] /\ req.kind = "manual"
  /\ resp \in RefreshResponses
  /\ Commit(t, manualStored(Intercept(t, settled(World(t), req), resp), resp), route[t], Ran("manualSettle", resp.status, "-", FALSE))
  /\ UNCHANGED pc

\* -------------------------------------------------------- session validation
\* handleVisibilityChange: the page became visible while authenticated.
visibilityChange(t) ==
  /\ DashboardMounted(t)
  /\ session[t].isAuthenticated
  /\ Commit(t, validateSession(World(t)), route[t], Ran("visibilityChange", "-", "-", FALSE))
  /\ UNCHANGED pc

\* validateSession lines 36-47 on the response; req.arg is the identity the
\* callback captured when the request was sent.
validateOutcome(w, req, resp) ==
  IF resp.status = "ok" /\ JSONstringify(req.arg) # JSONstringify(resp.user)
  THEN setUser(w, resp.user) ELSE w

meSettle(t, req, resp) ==
  /\ req \in inflight[t] /\ req.kind = "me"
  /\ resp \in MeResponses
  /\ Commit(t, validateOutcome(Intercept(t, settled(World(t), req), resp), req, resp), route[t], Ran("meSettle", resp.status, "-", FALSE))
  /\ UNCHANGED pc

\* ------------------------------------------------------- cross-tab listener
handleStorageChangeAnyKey(w, e) ==
  IF e.isNull THEN logout(w) ELSE w

handleStorageChange(w, e) ==
  IF e.key = "admin_token" /\ e.isNull THEN logout(w) ELSE w

\* A queued storage event reaches the tab; without useAuthManager mounted
\* nothing listens.
deliverStorage(t, e) ==
  /\ e \in events[t]
  /\ CommitEv(t, IF DashboardMounted(t) THEN handleStorageChange(World(t), e) ELSE World(t),
              route[t], events[t] \ {e}, Ran("deliverStorage", "-", e.key, e.isNull))
  /\ UNCHANGED pc

\* ---------------------------------------------------------------- navigation
navigate(t, r) ==
  /\ pc[t] = "ready"
  /\ ProtectedRoute(session[t]) = "protected"
  /\ r \in Routes /\ r # route[t]
  /\ Commit(t, World(t), r, Ran("navigate", "-", "-", FALSE))
  /\ UNCHANGED pc

\* The tab is reloaded: the process restarts, sessionStorage survives.
reload(t, r) ==
  /\ pc[t] = "ready"
  /\ r \in Routes
  /\ pc' = [pc EXCEPT ![t] = "start"]
  /\ session' = [session EXCEPT ![t] = initialState]
  /\ inflight' = [inflight EXCEPT ![t] = {}]
  /\ events' = [events EXCEPT ![t] = {}]
  /\ route' = [route EXCEPT ![t] = r]
  /\ timer' = [timer EXCEPT ![t] = "idle"]
  /\ last' = [NoRun EXCEPT !.op = "reload", !.tab = t]
  /\ UNCHANGED <<localStorage, sessionStorage>>

\* ------------------------------------------------------------ specification
\* Tab A alone is open, on a clean origin.
Init ==
  /\ session = [t \in Tabs |-> initialState]
  /\ localStorage = EmptyLocal
  /\ sessionStorage = [t \in Tabs |-> EmptySession]
  /\ pc = [t \in Tabs |-> IF t = "A" THEN "start" ELSE "closed"]
  /\ route = [t \in Tabs |-> "dashboard"]
  /\ inflight = [t \in Tabs |-> {}]
  /\ events = [t \in Tabs |-> {}]
  /\ timer = [t \in Tabs |-> "idle"]
  /\ last = NoRun

Next ==
  \/ \E t \in Tabs : initializeAuth(t)
  \/ \E t \in Tabs, rememberMe \in {0, 1} : loginStart(t, rememberMe)
  \/ \E t \in Tabs, req \in LoginReqs, resp \in LoginResponses : loginSettle(t, req, resp)
  \/ \E t \in Tabs, viaUseLogout \in BOOLEAN : logoutClick(t, viaUseLogout)
  \/ \E t \in Tabs, req \in LogoutReqs, resp \in LogoutResponses : logoutSettle(t, req, resp)
  \/ \E t \in Tabs : timePasses(t)
  \/ \E t \in Tabs : refreshTick(t)
  \/ \E t \in Tabs, req \in RefreshReqs, resp \in RefreshResponses : refreshSettle(t, req, resp)
  \/ \E t \in Tabs : visibilityChange(t)
  \/ \E t \in Tabs, req \in MeReqs, resp \in MeResponses : meSettle(t, req, resp)
  \/ \E t \in Tabs, r \in Routes : navigate(t, r)
  \/ \E t \in Tabs, r \in Routes : reload(t, r)

Spec == Init /\ [][Next]_vars

\* Tab A over any length of time: time passes on a set interval, an elapsed
\* interval fires its callback, the mount effect runs and every request
\* settles; the user's clicks need not happen.
FairTimer ==
  /\ Init /\ [][Next]_vars
  /\ \A t \in Tabs :
       /\ WF_vars(initializeAuth(t))
       /\ WF_vars(timePasses(t))
       /\ WF_vars(refreshTick(t))
       /\ WF_vars(\E req \in LoginReqs, resp \in LoginResponses : loginSettle(t, req, resp))
       /\ WF_vars(\E req \in LogoutReqs, resp \in LogoutResponses : logoutSettle(t, req, resp))
       /\ WF_vars(\E req \in RefreshReqs, resp \in RefreshResponses : refreshSettle(t, req, resp))
       /\ WF_vars(\E req \in MeReqs, resp \in MeResponses : meSettle(t, req, resp))

\* -------------------------------------------------- stored state at start
\* Tab A starts on an origin whose storages hold whatever earlier runs,
\* other versions or the user left there.
InitStored ==
  /\ session = [t \in Tabs |-> initialState]
  /\ localStorage \in [admin_token : RawTokens, admin_user : RawUsers, admin_remember_me : RawRemember]
  /\ sessionStorage \in {[t \in Tabs |-> IF t = "A" THEN p ELSE EmptySession] :
                            p \in [admin_token : RawTokens, admin_user : RawUsers]}
  /\ pc = [t \in Tabs |-> IF t = "A" THEN "start" ELSE "closed"]
  /\ route = [t \in Tabs |-> "dashboard"]
  /\ inflight = [t \in Tabs |-> {}]
  /\ events = [t \in Tabs |-> {}]
  /\ timer = [t \in Tabs |-> "idle"]
  /\ last = NoRun

SpecStored == InitStored /\ [][Next]_vars

\* ------------------------------------------------ two authenticated tabs
\* Two tabs of the origin hold a session of the same admin: with the
\* remember-me preference set both were hydrated from localStorage, without
\* it each logged in on its own and keeps the pair in its sessionStorage.
StoredPair(u, k) == [admin_token |-> JSONstringify(k), admin_user |-> JSONstringify(u)]

InitTabs ==
  \E remember \in BOOLEAN, u \in {1}, k \in [Tabs -> Tokens], r \in [Tabs -> Routes] :
    /\ k["A"] = 1
    /\ remember => k["A"] = k["B"]
    /\ session = [t \in Tabs |-> authReducer(initialState, LOGIN_SUCCESS(u, k[t]))]
    /\ localStorage = IF remember
                      THEN [admin_token |-> JSONstringify(k["A"]), admin_user |-> JSONstringify(u),
                            admin_remember_me |-> "true"]
                      ELSE EmptyLocal
    /\ sessionStorage = [t \in Tabs |-> IF remember THEN EmptySession ELSE StoredPair(u, k[t])]
    /\ pc = [t \in Tabs |-> "ready"]
    /\ route = r
    /\ inflight = [t \in Tabs |-> IF r[t] = "dashboard" THEN {Req("me", u)} ELSE {}]
    /\ events = [t \in Tabs |-> {}]
    /\ timer = [t \in Tabs |-> IF r[t] = "dashboard" THEN "armed" ELSE "idle"]
    /\ last = NoRun

\* What happens within one refresh interval, on the pages the tabs show.
NextTabs ==
  \/ \E t \in Tabs, viaUseLogout \in BOOLEAN : logoutClick(t, viaUseLogout)
  \/ \E t \in Tabs, req \in LogoutReqs, resp \in LogoutResponses : logoutSettle(t, req, resp)
  \/ \E t \in Tabs, req \in MeReqs, resp \in MeResponses : meSettle(t, req, resp)
  \/ \E t \in Tabs, e \in StorageEventSet : deliverStorage(t, e)

SpecTabs == InitTabs /\ [][NextTabs]_vars

\* The same two tabs over any length of time: the refresh interval ticks
\* while Dashboard is mounted, storage events are delivered and every
\* request settles (the client's request timeout bounds the wait); clicks
\* need not happen.
NextTabsTimed ==
  \/ \E t \in Tabs, viaUseLogout \in BOOLEAN : logoutClick(t, viaUseLogout)
  \/ \E t \in Tabs, req \in LogoutReqs, resp \in LogoutResponses : logoutSettle(t, req, resp)
  \/ \E t \in Tabs : timePasses(t)
  \/ \E t \in Tabs : refreshTick(t)
  \/ \E t \in Tabs, req \in RefreshReqs, resp \in RefreshResponses : refreshSettle(t, req, resp)
  \/ \E t \in Tabs, req \in MeReqs, resp \in MeResponses : meSettle(t, req, resp)
  \/ \E t \in Tabs, e \in StorageEventSet : deliverStorage(t, e)

FairTabs ==
  /\ InitTabs /\ [][NextTabsTimed]_vars
  /\ \A t \in Tabs :
       /\ WF_vars(\E e \in StorageEventSet : deliverStorage(t, e))
       /\ WF_vars(\E req \in LogoutReqs, resp \in LogoutResponses : logoutSettle(t, req, resp))
       /\ WF_vars(timePasses(t))
       /\ WF_vars(refreshTick(t))
       /\ WF_vars(\E req \in RefreshReqs, resp \in RefreshResponses : refreshSettle(t, req, resp))
       /\ WF_vars(\E req \in MeReqs, resp \in MeResponses : meSettle(t, req, resp))

\* ------------------------------------------------------- the login form
\* useLogin hands clearError to the login form, which ProtectedRoute renders
\* for every Session it does not accept.
clearErrorCall(t) ==
  /\ pc[t] = "ready"
  /\ ProtectedRoute(session[t]) = "login"
  /\ Commit(t, clearError(World(t)), route[t], Ran("clearError", "-", "-", FALSE))
  /\ UNCHANGED pc

NextForm ==
  \/ Next
  \/ \E t \in Tabs : clearErrorCall(t)

SpecForm == Init /\ [][NextForm]_vars

\* ------------------------------------------------------ the Settings page
\* Tab A, authenticated, shows the Settings page inside the protected
\* subtree; a scheduled refresh sent from the Dashboard before the page
\* change may still be in flight.
InitSettings ==
  \E remember \in BOOLEAN, scheduled \in BOOLEAN :
    /\ session = [t \in Tabs |-> IF t = "A" THEN authReducer(initialState, LOGIN_SUCCESS(1, 1))
                                   ELSE initialState]
    /\ localStorage = IF remember
                      THEN [admin_token |-> JSONstringify(1), admin_user |-> JSONstringify(1),
                            admin_remember_me |-> "true"]
                      ELSE EmptyLocal
    /\ sessionStorage = [t \in Tabs |-> IF t = "A" /\ ~remember THEN StoredPair(1, 1)
                                          ELSE EmptySession]
    /\ pc = [t \in Tabs |-> IF t = "A" THEN "ready" ELSE "closed"]
    /\ route = [t \in Tabs |-> IF t = "A" THEN "settings" ELSE "dashboard"]
    /\ inflight = [t \in Tabs |-> IF t = "A" /\ scheduled THEN {Req("refresh", 0)} ELSE {}]
    /\ events = [t \in Tabs |-> {}]
    /\ timer = [t \in Tabs |-> "idle"]
    /\ last = NoRun

NextSettings ==
  \/ \E t \in Tabs : handleRefreshToken(t)
  \/ \E t \in Tabs, req \in ManualReqs, resp \in RefreshResponses : manualSettle(t, req, resp)
  \/ \E t \in Tabs, req \in RefreshReqs, resp \in RefreshResponses : refreshSettle(t, req, resp)
  \/ \E t \in Tabs, viaUseLogout \in BOOLEAN : logoutClick(t, viaUseLogout)
  \/ \E t \in Tabs, req \in LogoutReqs, resp \in LogoutResponses : logoutSettle(t, req, resp)
  \/ \E t \in Tabs, rememberMe \in {0, 1} : loginStart(t, rememberMe)
  \/ \E t \in Tabs, req \in LoginReqs, resp \in LoginResponses : loginSettle(t, req, resp)

SpecSettings == InitSettings /\ [][NextSettings]_vars

\* ------------------------------------------------------ the reducer alone
\* The reducer applied to any Session: every value of AuthState, whether or
\* not the flows above reach it, and every action of AuthAction.
ErrorValues == {NullErr, "", LoginFailed, NetworkError}
SessionStates ==
  [user : Users \cup {Null}, token : Tokens \cup {Null}, isAuthenticated : BOOLEAN,
   loading : BOOLEAN, error : ErrorValues]
AuthActions ==
  {LOGIN_START, LOGOUT}
    \cup {LOGIN_SUCCESS(u, k) : u \in Users, k \in Tokens}
    \cup {LOGIN_FAILURE(m) : m \in ErrorValues \ {NullErr}}
    \cup {SET_USER(u) : u \in Users}
    \cup {SET_LOADING(b) : b \in BOOLEAN}

InitReducer ==
  /\ session \in {[t \in Tabs |-> IF t = "A" THEN s ELSE initialState] : s \in SessionStates}
  /\ localStorage = EmptyLocal
  /\ sessionStorage = [t \in Tabs |-> EmptySession]
  /\ pc = [t \in Tabs |-> IF t = "A" THEN "ready" ELSE "closed"]
  /\ route = [t \in Tabs |-> "dashboard"]
  /\ inflight = [t \in Tabs |-> {}]
  /\ events = [t \in Tabs |-> {}]
  /\ timer = [t \in Tabs |-> "idle"]
  /\ last = NoRun

\* useReducer's dispatch.
applyAction(t, action) ==
  /\ pc[t] = "ready"
  /\ session' = [session EXCEPT ![t] = authReducer(session[t], action)]
  /\ last' = [NoRun EXCEPT !.op = action.type, !.tab = t, !.wasAuth = session[t].isAuthenticated]
  /\ UNCHANGED <<localStorage, sessionStorage, pc, route, inflight, events, timer>>

NextReducer == \E t \in Tabs, action \in AuthActions : applyAction(t, action)

SpecReducer == InitReducer /\ [][NextReducer]_vars

\* ==================================================================== claims
LoggedOut == [user |-> Null, token |-> Null, isAuthenticated |-> FALSE,
              loading |-> FALSE, error |-> NullErr]

\* C1: in every reached state, isAuthenticated is true if and only if both
\* user and token are non-null.
C1_AuthenticatedIffUserAndToken ==
  \A t \in Tabs :
    session[t].isAuthenticated <=> (session[t].user # Null /\ session[t].token # Null)

\* C2: a scheduled refresh that settles with a failure leaves the Session
\* unauthenticated, and no refresh request is sent again.
C2_FailedRefreshLogsOut ==
  (last.op = "refreshSettle" /\ last.status # "ok")
    => /\ ~session[last.tab].isAuthenticated
       /\ Req("refresh", 0) \notin inflight[last.tab]

C2_Witness ==
  last.op = "refreshSettle" /\ last.status # "ok" /\ last.wasAuth

\* C3: after tab A's explicit logout, an authenticated tab B eventually
\* becomes logged out, with no user action in tab B.
C3_OtherTabFollowsLogout ==
  (last.op = "logoutClick" /\ last.tab = "A" /\ session["B"].isAuthenticated)
    ~> ~session["B"].isAuthenticated

C5_LogoutIdempotent ==
  \A t \in Tabs :
    (last.tab = t /\ last.loggedOut /\ last.op # "loginSettle")
      => LET w == logout(World(t))
         IN /\ w.s = session[t]
            /\ authReducer(session[t], LOGOUT) = session[t]
            /\ w.ls = localStorage
            /\ w.ss = sessionStorage[t]

C5_Witness ==
  last.loggedOut /\ ~last.wasAuth /\ last.op = "refreshSettle"

\* C6: SET_USER leaves token, isAuthenticated, loading and error as they were.
C6_SetUserKeepsTheRest ==
  [][\A t \in Tabs : \A req \in inflight[t] : \A resp \in MeResponses :
       (meSettle(t, req, resp) /\ resp.status = "ok" /\ req.arg # resp.user)
         => /\ session'[t].token = session[t].token
            /\ session'[t].isAuthenticated = session[t].isAuthenticated
            /\ session'[t].loading = session[t].loading
            /\ session'[t].error = session[t].error]_vars

\* C7: the protected subtree is rendered only for a non-loading,
\* authenticated Session, never before the initializer ran, and a
\* non-loading unauthenticated Session renders the login form.
C7_GuardRendersProtectedOnlyWhenAuthenticated ==
  \A t \in Tabs :
    LET v == ProtectedRoute(session[t]) IN
    /\ v = "protected" => (~session[t].loading /\ session[t].isAuthenticated)
    /\ pc[t] # "ready" => v # "protected"
    /\ (~session[t].loading /\ ~session[t].isAuthenticated) => v = "login"

C7_Witness ==
  \E t \in Tabs : pc[t] = "ready" /\ ProtectedRoute(session[t]) = "protected"

\* C8: with admin_remember_me = 'true' and a valid JSON credential and
\* identity in localStorage, the initializer yields an authenticated,
\* non-loading Session holding exactly the stored pair.
C8_InitializerRestoresRememberedPair ==
  \A t \in Tabs : \A u \in Users, k \in Tokens :
    ( /\ last.op = "initializeAuth" /\ last.tab = t
      /\ localStorage.admin_remember_me = "true"
      /\ localStorage.admin_token = [tag |-> "json", val |-> k]
      /\ localStorage.admin_user = [tag |-> "json", val |-> u] )
    => session[t] = [user |-> u, token |-> k, isAuthenticated |-> TRUE,
                     loading |-> FALSE, error |-> NullErr]

C8_Witness ==
  /\ last.op = "initializeAuth"
  /\ localStorage.admin_remember_me = "true"
  /\ localStorage.admin_token.tag = "json" /\ localStorage.admin_token.val \in Tokens
  /\ localStorage.admin_user.tag = "json" /\ localStorage.admin_user.val \in Users
  /\ sessionStorage[last.tab].admin_token = Absent

\* The store the remember-me preference selects for tab t.
SelectedStore(t) ==
  IF localStorage.admin_remember_me = "true" THEN
    [admin_token |-> localStorage.admin_token, admin_user |-> localStorage.admin_user]
  ELSE sessionStorage[t]

OtherStore(t) ==
  IF localStorage.admin_remember_me = "true" THEN sessionStorage[t]
  ELSE [admin_token |-> localStorage.admin_token, admin_user |-> localStorage.admin_user]

\* C9: malformed JSON under the credential key or the identity key of the
\* selected store makes the initializer yield a logged-out, non-loading
\* Session.
C9_MalformedStoredJsonIsAbsent ==
  \A t \in Tabs :
    ( /\ last.op = "initializeAuth" /\ last.tab = t
      /\ \/ SelectedStore(t).admin_token = Malformed
         \/ SelectedStore(t).admin_user = Malformed )
    => session[t] = LoggedOut

C9_Witness ==
  /\ last.op = "initializeAuth"
  /\ SelectedStore(last.tab).admin_token = Malformed
  /\ SelectedStore(last.tab).admin_user.tag = "json"

\* C10: when the selected store lacks the credential or the identity, the
\* initializer yields a logged-out, non-loading Session whatever the other
\* store holds.
C10_InitializerReadsSelectedStoreOnly ==
  \A t \in Tabs :
    ( /\ last.op = "initializeAuth" /\ last.tab = t
      /\ \/ SelectedStore(t).admin_token = Absent
         \/ SelectedStore(t).admin_user = Absent )
    => session[t] = LoggedOut

C10_Witness ==
  /\ last.op = "initializeAuth"
  /\ SelectedStore(last.tab).admin_token = Absent
  /\ OtherStore(last.tab).admin_token.tag = "json" /\ OtherStore(last.tab).admin_token.val \in Tokens
  /\ OtherStore(last.tab).admin_user.tag = "json" /\ OtherStore(last.tab).admin_user.val \in Users

\* C11: a successful scheduled refresh in an authenticated Session writes the
\* renewed credential to the store the remember-me preference selects,
\* gives the other store no credential and leaves the Session authenticated.
C11_RefreshWritesSelectedStore ==
  [][\A t \in Tabs, req \in RefreshReqs, resp \in RefreshResponses :
       (refreshSettle(t, req, resp) /\ resp.status = "ok" /\ session[t].isAuthenticated)
         => /\ SelectedStore(t)'.admin_token = JSONstringify(resp.token)
            /\ OtherStore(t)'.admin_token = OtherStore(t).admin_token
            /\ session'[t].isAuthenticated]_vars

\* C12: a successful refresh in an authenticated Session replaces the
\* Session's token by the renewed credential the backend returned.
C12_RefreshReplacesSessionToken ==
  [][\A t \in Tabs, req \in RefreshReqs, resp \in RefreshResponses :
       (refreshSettle(t, req, resp) /\ resp.status = "ok" /\ session[t].isAuthenticated)
         => session'[t].token = resp.token]_vars

\* C13: a validation (me) call sent by the visibility handler that settles
\* with a failure, a 401 included, leaves isAuthenticated, user and token of
\* the Session as they were.
C13_FailedValidationKeepsSession ==
  [][\A t \in Tabs, req \in MeReqs, resp \in MeResponses :
       ( /\ last.op = "visibilityChange" /\ last.tab = t
         /\ meSettle(t, req, resp) /\ resp.status # "ok" )
         => /\ session'[t].isAuthenticated = session[t].isAuthenticated
            /\ session'[t].user = session[t].user
            /\ session'[t].token = session[t].token]_vars

\* C14: after tab A completed an explicit logout, tab B, in which the
\* listeners are subscribed, eventually runs logout() itself and is logged
\* out.
C14_LogoutBroadcastReachesListeners ==
  (last.op = "logoutClick" /\ last.tab = "A" /\ DashboardMounted("B"))
    ~> (~DashboardMounted("B") /\ ~session["B"].isAuthenticated)

\* The credential and identity keys of both storages of tab t are absent.
ClearedIn(ls, ss) ==
  /\ ls.admin_token = Absent /\ ls.admin_user = Absent
  /\ ss.admin_token = Absent /\ ss.admin_user = Absent

StoragesCleared(t) == ClearedIn(localStorage, sessionStorage[t])

\* C15: when an explicit logout() returns, both storages are cleared, the
\* Session is logged out and the backend logout call is only then in flight;
\* when that call fails, a logged-out Session stays logged out and no
\* cleared storage key comes back.
C15_LogoutLocalFirstBackendBestEffort ==
  /\ [](last.op = "logoutClick" =>
          /\ session[last.tab] = LoggedOut
          /\ StoragesCleared(last.tab)
          /\ Req("logout", 0) \in inflight[last.tab])
  /\ [][(last'.op = "logoutSettle" /\ last'.status # "ok") =>
          /\ ~session[last'.tab].isAuthenticated => session'[last'.tab] = session[last'.tab]
          /\ StoragesCleared(last'.tab) => ClearedIn(localStorage', sessionStorage'[last'.tab])]_vars

C15_Witness ==
  /\ last.op = "logoutSettle" /\ last.status # "ok"
  /\ session[last.tab] = LoggedOut /\ StoragesCleared(last.tab)

\* C16: a successful login leaves the credential and the identity it
\* returned in the store selected by the remember-me preference persisted
\* when login ran (localStorage if 'true', else sessionStorage), and neither
\* key in the other store.
C16_LoginStoresInSelectedStore ==
  [][(last'.op = "loginSettle" /\ last'.status = "ok") =>
       LET t == last'.tab
           remember == localStorage.admin_remember_me = "true"
           sel == IF remember THEN localStorage' ELSE sessionStorage'[t]
           oth == IF remember THEN sessionStorage'[t] ELSE localStorage'
       IN /\ sel.admin_token = JSONstringify(session'[t].token)
          /\ sel.admin_user = JSONstringify(session'[t].user)
          /\ session'[t].token \in Tokens /\ session'[t].user \in Users
          /\ oth.admin_token = Absent /\ oth.admin_user = Absent]_vars

C16_Witness ==
  /\ last.op = "loginSettle" /\ last.status = "ok"
  /\ localStorage.admin_remember_me = "true"
  /\ localStorage.admin_token = JSONstringify(session[last.tab].token)
  /\ sessionStorage[last.tab].admin_token = Absent

\* C17: the refresh interval is set only in a tab whose Session is
\* authenticated and whose Dashboard is mounted, and every scheduled refresh
\* tick fires in such a tab: none after logout was dispatched or after the
\* view unmounted.
C17_RefresherActiveOnlyWhileAuthenticated ==
  /\ \A t \in Tabs :
        timer[t] # "idle" => (session[t].isAuthenticated /\ DashboardMounted(t))
  /\ last.op = "refreshTick" => (last.wasAuth /\ last.heard)

C17_Witness ==
  /\ last.op \in {"logoutClick", "navigate"} /\ last.wasAuth /\ last.heard
  /\ timer[last.tab] = "idle"

\* C18: in a tab whose Session is authenticated and whose Dashboard is
\* mounted, a refresh request is eventually sent unless the Session stops
\* being authenticated or the view unmounts, however often the view
\* re-renders or the identity changes.
C18_RefreshEventuallyIssued ==
  \A t \in Tabs :
    DashboardMounted(t) ~> (~DashboardMounted(t) \/ Req("refresh", 0) \in inflight[t])

\* C19: in every tab whose Session is authenticated, on whichever page it
\* shows, the storage and auth:logout listeners of useAuthManager are
\* subscribed.
C19_ListenersWhileAuthenticated ==
  \A t \in Tabs :
    (pc[t] = "ready" /\ session[t].isAuthenticated) => DashboardMounted(t)

\* C20: loading is true only before the initializer's first dispatch or
\* while a login request is in flight.
C20_LoadingOnlyInitOrLogin ==
  \A t \in Tabs :
    session[t].loading =>
      (pc[t] # "ready" \/ \E q \in inflight[t] : q.kind = "login")

C20_Witness ==
  /\ last.op = "loginSettle" /\ last.status # "ok"
  /\ ~session[last.tab].loading
  /\ \A q \in inflight[last.tab] : q.kind # "login"

\* C21: a login that fails (401 or any other failure) leaves the Session
\* with user and token null, isAuthenticated and loading false and error
\* equal to the failure message, and login throws to useLogin, which then
\* skips the remember-me write.
C21_LoginFailureState ==
  [][(last'.op = "loginSettle" /\ last'.status # "ok") =>
       /\ \E resp \in Failures :
            /\ resp.status = last'.status
            /\ session'[last'.tab] = [user |-> Null, token |-> Null, isAuthenticated |-> FALSE,
                                       loading |-> FALSE, error |-> resp.msg]
       /\ localStorage'.admin_remember_me = localStorage.admin_remember_me]_vars

C21_Witness ==
  /\ last.op = "loginSettle" /\ last.status = "error"
  /\ session[last.tab].error = NetworkError
  /\ localStorage.admin_remember_me = "absent"

\* C22: LOGIN_SUCCESS(user, token) applied to any Session yields user and
\* token of the payload, isAuthenticated true, loading false and error null.
C22_LoginSuccessResult ==
  [][\A t \in Tabs, u \in Users, k \in Tokens :
       applyAction(t, LOGIN_SUCCESS(u, k))
         => session'[t] = [user |-> u, token |-> k, isAuthenticated |-> TRUE,
                           loading |-> FALSE, error |-> NullErr]]_vars

C22_Witness ==
  /\ last.op = "LOGIN_SUCCESS" /\ last.wasAuth
  /\ session[last.tab].isAuthenticated /\ session[last.tab].error = NullErr

\* C23: when the scheduled and the manual refresh overlap, each settles on
\* its own (the other request stays in flight until its response arrives)
\* and every successful response overwrites the stored credential, so that
\* after both settled localStorage holds the token of the response that
\* arrived last.
C23_OverlappingRefreshLastWins ==
  [][\A t \in Tabs, resp \in RefreshResponses :
       /\ (manualSettle(t, Req("manual", 0), resp) /\ resp.status = "ok")
            => /\ localStorage'.admin_token = JSONstringify(resp.token)
               /\ Req("refresh", 0) \in inflight[t] => Req("refresh", 0) \in inflight'[t]
       /\ (refreshSettle(t, Req("refresh", 0), resp) /\ resp.status = "ok")
            => /\ localStorage'.admin_token = JSONstringify(resp.token)
               /\ Req("manual", 0) \in inflight[t] => Req("manual", 0) \in inflight'[t]]_vars

C23_Witness ==
  /\ last.op = "refreshSettle" /\ last.status = "ok"
  /\ Req("manual", 0) \in inflight[last.tab]
  /\ localStorage.admin_token = JSONstringify(2)

\* C24: after a response with status 401 to any request, credential and
\* identity are absent from both storages, and in a tab where the listener
\* was mounted logout() ran and the Session is logged out.
C24_Any401ClearsAndLogsOut ==
  last.status = "401" =>
    /\ StoragesCleared(last.tab)
    /\ last.heard => (last.loggedOut /\ session[last.tab] = LoggedOut)

C24_Witness ==
  /\ last.status = "401" /\ last.op = "meSettle"
  /\ last.heard /\ last.wasAuth /\ last.loggedOut

\* C25: an unauthenticated Session becomes authenticated only through
\* LOGIN_SUCCESS (a successful login, or the initializer after a restart);
\* a validation response that arrives after logout does not set
\* isAuthenticated back to true nor restore the identity.
C25_LoggedOutUntilLoginSuccess ==
  [][\A t \in Tabs :
       (pc[t] = "ready" /\ ~session[t].isAuthenticated /\ session[t].user = Null
          /\ last'.op \notin {"loginSettle", "initializeAuth", "reload"})
         => (~session'[t].isAuthenticated /\ session'[t].user = Null)]_vars

\* Neither storage holds anything under admin_token.
NoCredentialIn(ls, ss) == ls.admin_token = Absent /\ ss.admin_token = Absent

\* C26: while the Session is logged out and no storage holds a credential,
\* only a successful login puts one there; a refresh response that arrives
\* after the logout does not.
C26_NoCredentialAfterLogout ==
  [][\A t \in Tabs :
       ( /\ pc[t] = "ready" /\ ~session[t].isAuthenticated
         /\ NoCredentialIn(localStorage, sessionStorage[t])
         /\ ~(last'.op = "loginSettle" /\ last'.status = "ok") )
         => NoCredentialIn(localStorage', sessionStorage'[t])]_vars

\* C27: right after a successful useLogin.login, with either value of the
\* rememberMe option, restarting the tab on the storages as they are makes
\* the initializer yield an authenticated Session with the identity and the
\* credential the login returned.
C27_LoginRestartRoundTrip ==
  (last.op = "loginSettle" /\ last.status = "ok") =>
    LET t == last.tab
        restarted == initializeAuthIn([World(t) EXCEPT !.s = initialState])
    IN /\ restarted.s.isAuthenticated
       /\ restarted.s.user = session[t].user
       /\ restarted.s.token = session[t].token

\* C28: clearError leaves user, token and isAuthenticated of every Session
\* as they were.
C28_ClearErrorChangesOnlyError ==
  [][\A t \in Tabs :
       (last'.op = "clearError" /\ last'.tab = t)
         => /\ session'[t].user = session[t].user
            /\ session'[t].token = session[t].token
            /\ session'[t].isAuthenticated = session[t].isAuthenticated]_vars

\* C29: in every reachable state at most one of localStorage and the tab's
\* sessionStorage holds a credential under admin_token.
C29_CredentialInOneStoreOnly ==
  \A t \in Tabs :
    pc[t] # "closed" =>
      ~(localStorage.admin_token # Absent /\ sessionStorage[t].admin_token # Absent)

\* C30: the response to a backend logout call, a 401 included, never makes
\* the tab send another logout call while no new login has put the tab back
\* behind ProtectedRoute: the logout that sent the call unmounted the
\* listener, so the chain logout -> 401 -> auth:logout -> logout ends after
\* one call.
C30_LogoutChainEnds ==
  [][(last'.op = "logoutSettle" /\ ProtectedRoute(session[last'.tab]) # "protected")
       => /\ Req("logout", 0) \notin inflight'[last'.tab]
          /\ ~last'.loggedOut]_vars

C30_Witness ==
  /\ last.op = "logoutSettle" /\ last.status = "401" /\ ~last.wasAuth
  /\ Req("logout", 0) \notin inflight[last.tab]

====
